---- MODULE Spec2Model ----
(***************************************************************************)
(* The data-retrieval layer of the stock agent: the five client operations *)
(* of stock_agent/tools.py and sub_agents/analytics_agent/tools.py, each   *)
(* modelled as one invocation that builds its request, blocks on the       *)
(* upstream call, and turns the upstream outcome into a result envelope.   *)
(*                                                                         *)
(* Text is modelled as a sequence of pieces (the literal and interpolated  *)
(* parts of an f-string).  Provider strings that the code parses are       *)
(* sequences of one-character strings.  A float is [m, e] standing for     *)
(* m / 10^e, normalised so that it has no trailing fractional zero.        *)
(***************************************************************************)
EXTENDS Integers, Sequences, FiniteSets, TLC

VARIABLES pc, op, args, reqs, resp, ov, ret, escaped,
          topics_default,   \* the list object bound to the default of the
                            \* parameter topics of get_stock_news, made once
                            \* when the function is defined and shared by
                            \* every call that omits topics
          seen              \* what a caller kept of an earlier call

vars == <<pc, op, args, reqs, resp, ov, ret, escaped, topics_default, seen>>

(* ---------------------------------------------------------------- bounds *)
MaxList == 2      \* longest top_gainers / top_losers array
MaxLimit == 2     \* largest limit argument

(* ------------------------------------------------------ program constants *)
HTTP_OK == 200

(* ----------------------------------------------------------- Python bits *)
Min(a, b) == IF a <= b THEN a ELSE b
Max(a, b) == IF a >= b THEN a ELSE b

\* dict.get(key, default)
Get(d, k, default) == IF k \in DOMAIN d THEN d[k] ELSE default

\* mutant: the stop index is taken as inclusive
PySliceInclusive(seq, n) ==
    IF n >= 0 THEN SubSeq(seq, 1, Min(n + 1, Len(seq)))
    ELSE SubSeq(seq, 1, Max(Len(seq) + n, 0))

\* seq[:n] with Python's meaning of a negative stop
PySlice(seq, n) ==
    IF n >= 0 THEN SubSeq(seq, 1, Min(n, Len(seq)))
    ELSE SubSeq(seq, 1, Max(Len(seq) + n, 0))

\* str.replace(c, "") for a one-character c
RECURSIVE Remove(_, _)
Remove(s, c) ==
    IF s = <<>> THEN <<>>
    ELSE IF Head(s) = c THEN Remove(Tail(s), c)
    ELSE <<Head(s)>> \o Remove(Tail(s), c)

Digits == {"0", "1", "2", "3", "4", "5", "6", "7", "8", "9"}

DigitVal(c) ==
    CASE c = "0" -> 0 [] c = "1" -> 1 [] c = "2" -> 2 [] c = "3" -> 3
      [] c = "4" -> 4 [] c = "5" -> 5 [] c = "6" -> 6 [] c = "7" -> 7
      [] c = "8" -> 8 [] c = "9" -> 9

RECURSIVE DigitsVal(_)
DigitsVal(s) ==
    IF s = <<>> THEN 0
    ELSE 10 * DigitsVal(SubSeq(s, 1, Len(s) - 1)) + DigitVal(s[Len(s)])

AllDigits(s) == \A i \in DOMAIN s : s[i] \in Digits

RECURSIVE Pow10(_)
Pow10(n) == IF n = 0 THEN 1 ELSE 10 * Pow10(n - 1)

RECURSIVE Normalise(_)
Normalise(f) ==
    IF f.e > 0 /\ f.m % 10 = 0 THEN Normalise([m |-> f.m \div 10, e |-> f.e - 1])
    ELSE f

StripSign(s) ==
    IF s # <<>> /\ Head(s) \in {"+", "-"} THEN Tail(s) ELSE s

SignOf(s) == IF s # <<>> /\ Head(s) = "-" THEN -1 ELSE 1

DotAt(s) == IF \E i \in DOMAIN s : s[i] = "."
            THEN CHOOSE i \in DOMAIN s : s[i] = "." /\ \A j \in 1..(i - 1) : s[j] # "."
            ELSE 0

\* int(s): optional sign then decimal digits; anything else is a ValueError
ParseInt(s) ==
    LET body == StripSign(s) IN
    IF body # <<>> /\ AllDigits(body)
    THEN [ok |-> TRUE, v |-> SignOf(s) * DigitsVal(body)]
    ELSE [ok |-> FALSE, v |-> 0]

\* float(s): optional sign, digits with at most one point and at least one
\* digit; anything else is a ValueError
ParseFloat(s) ==
    LET body == StripSign(s)
        d    == DotAt(body)
        ip   == IF d = 0 THEN body ELSE SubSeq(body, 1, d - 1)
        fp   == IF d = 0 THEN <<>> ELSE SubSeq(body, d + 1, Len(body))
    IN  IF AllDigits(ip) /\ AllDigits(fp) /\ Len(ip) + Len(fp) > 0
        THEN [ok |-> TRUE,
              v  |-> Normalise([m |-> SignOf(s) * DigitsVal(ip \o fp), e |-> Len(fp)])]
        ELSE [ok |-> FALSE, v |-> [m |-> 0, e |-> 0]]

Abs(n) == IF n < 0 THEN -n ELSE n

RECURSIVE PadDigits(_, _)
PadDigits(n, width) ==
    IF width = 0 THEN ""
    ELSE PadDigits(n \div 10, width - 1) \o ToString(n % 10)

\* repr of a float, as an f-string interpolates it
FloatStr(f) ==
    (IF f.m < 0 THEN "-" ELSE "") \o ToString(Abs(f.m) \div Pow10(f.e)) \o "."
        \o (IF f.e = 0 THEN "0" ELSE PadDigits(Abs(f.m) % Pow10(f.e), f.e))

\* does the text contain the piece
Contains(text, piece) == \E i \in DOMAIN text : text[i] = piece

(* ------------------------------------------------------------- envelopes *)
NoEnvelope == [status |-> "none"]
NoResp == [kind |-> "none"]
NoData == [json |-> FALSE]
NoArgs == [limit |-> 0]

\* str(e) of the exceptions the model raises
ExcText(kind) ==
    CASE kind = "RequestException" -> "connection failed"
      [] kind = "JSONDecodeError"  -> "Expecting value"
      [] kind = "ValueError"       -> "could not convert string"
      [] kind = "AttributeError"   -> "object has no attribute"
      [] OTHER                     -> "error"

\* an upstream reply: a transport exception, or a status code and a body
ExceptionResp == [kind |-> "exception", code |-> 0, body |-> NoData]
StatusCodes == {HTTP_OK, 404, 503}
FailResp(text) == {[kind |-> "http", code |-> c, body |-> [json |-> FALSE, text |-> text]] :
                      c \in StatusCodes \ {HTTP_OK}}
OkResp(bodies) == {[kind |-> "http", code |-> HTTP_OK, body |-> b] : b \in bodies}

\* a 200 body that is not JSON: response.json() raises
NotJson == [json |-> FALSE, text |-> "<html>"]

SeqsUpTo(S, n) == UNION {[1..k -> S] : k \in 0..n}

(* ----------------------------------------------------- get_market_movers *)
MoverA == [ticker |-> "AAA", price |-> <<"1", ".", "5">>,
           change_amount |-> <<"0", ".", "5">>,
           change_percentage |-> <<"5", "0", ".", "0", "%">>,
           volume |-> <<"1", "2", "0", "0">>]
MoverB == [ticker |-> "BBB", price |-> <<"$", "2">>,
           change_percentage |-> <<"-", "3", ".", "2", "5", "%">>,
           volume |-> <<"1", ",", "0", "0", "0">>]
MoverBad == [ticker |-> "CCC", price |-> <<"N", "/", "A">>,
             change_amount |-> <<"0">>,
             change_percentage |-> <<"0", "%">>,
             volume |-> <<"7">>]
MoverEntries == {MoverA, MoverB, MoverBad}

\* the JSON object of a movers reply; an array may be absent
MoversData(hasG, g, hasL, l, hasU) ==
    [k \in (IF hasG THEN {"top_gainers"} ELSE {}) \cup
           (IF hasL THEN {"top_losers"} ELSE {}) \cup
           (IF hasU THEN {"last_updated"} ELSE {}) |->
        CASE k = "top_gainers" -> g
          [] k = "top_losers" -> l
          [] OTHER -> "2024-01-02 16:15:59 US/Eastern"]

MoversBodies ==
    {NotJson} \cup
    {[json |-> TRUE, data |-> MoversData(hasG, g, hasL, l, hasU)] :
        hasG \in BOOLEAN, g \in SeqsUpTo(MoverEntries, MaxList),
        hasL \in BOOLEAN, l \in SeqsUpTo(MoverEntries, MaxList),
        hasU \in BOOLEAN}

MoversResponses == {ExceptionResp} \cup FailResp("") \cup OkResp(MoversBodies)

\* mutant: the volume is converted with its thousands separators left in
MoverRecordRawVolume(stock) ==
    LET price  == ParseFloat(Remove(Get(stock, "price", <<"0">>), "$"))
        change == ParseFloat(Remove(Get(stock, "change_amount", <<"0">>), "$"))
        pct    == ParseFloat(Remove(Get(stock, "change_percentage", <<"0", "%">>), "%"))
        volume == ParseInt(Get(stock, "volume", <<"0">>))
    IN  [ok  |-> price.ok /\ change.ok /\ pct.ok /\ volume.ok,
         rec |-> [symbol |-> Get(stock, "ticker", ""),
                  name |-> Get(stock, "name", ""),
                  price |-> price.v,
                  change |-> change.v,
                  change_percent |-> pct.v,
                  volume |-> volume.v]]

\* one entry of the structured list, with the outcome of its conversions
MoverRecord(stock) ==
    LET price  == ParseFloat(Remove(Get(stock, "price", <<"0">>), "$"))
        change == ParseFloat(Remove(Get(stock, "change_amount", <<"0">>), "$"))
        pct    == ParseFloat(Remove(Get(stock, "change_percentage", <<"0", "%">>), "%"))
        volume == ParseInt(Remove(Get(stock, "volume", <<"0">>), ","))
    IN  [ok  |-> price.ok /\ change.ok /\ pct.ok /\ volume.ok,
         rec |-> [symbol |-> Get(stock, "ticker", ""),
                  name |-> Get(stock, "name", ""),
                  price |-> price.v,
                  change |-> change.v,
                  change_percent |-> pct.v,
                  volume |-> volume.v]]

\* mutant: data[key] is read without the membership test, a KeyError
MoverListKeyError(data, key, limit) ==
    IF key \in DOMAIN data
    THEN LET cut == PySlice(data[key], limit)
         IN  [i \in 1..Len(cut) |-> MoverRecord(cut[i])]
    ELSE <<[ok |-> FALSE, rec |-> MoverRecord(MoverA).rec]>>

MoverList(data, key, limit) ==
    IF key \in DOMAIN data
    THEN LET cut == PySlice(data[key], limit)
         IN  [i \in 1..Len(cut) |-> MoverRecord(cut[i])]
    ELSE <<>>

RECURSIVE MoverLines(_, _, _)
MoverLines(list, idx, sign) ==
    IF idx > Len(list) THEN <<>>
    ELSE <<ToString(idx), ". ", list[idx].symbol, " (", list[idx].name, "): " \o sign,
           FloatStr(list[idx].change_percent), "%, $", FloatStr(list[idx].price), "\n">>
         \o MoverLines(list, idx + 1, sign)

\* mutant: the losers section is put before the gainers section
MoversReportLosersFirst(gainers, losers) ==
    <<"\nTop Losers:\n">> \o MoverLines(losers, 1, "")
        \o <<"Top Gainers:\n">> \o MoverLines(gainers, 1, "+")

MoversReport(gainers, losers) ==
    <<"Top Gainers:\n">> \o MoverLines(gainers, 1, "+")
        \o <<"\nTop Losers:\n">> \o MoverLines(losers, 1, "")

\* mutant: the handler also hands back empty lists
MoversFailureWithLists(kind) ==
    [status |-> "error",
     error_message |-> <<"Failed to retrieve market movers: ", ExcText(kind)>>,
     gainers |-> <<>>,
     losers |-> <<>>]

MoversFailure(kind) ==
    [status |-> "error",
     error_message |-> <<"Failed to retrieve market movers: ", ExcText(kind)>>]

\* the envelope get_market_movers returns for an upstream reply
MarketMovers(limit, r) ==
    IF r.kind = "exception" THEN MoversFailure("RequestException")
    ELSE IF r.code # HTTP_OK
    THEN [status |-> "error",
          error_message |-> <<"API request failed with status code ", ToString(r.code)>>]
    ELSE IF ~r.body.json THEN MoversFailure("JSONDecodeError")
    ELSE LET data == r.body.data
             g == MoverList(data, "top_gainers", limit)
             l == MoverList(data, "top_losers", limit)
             gainers == [i \in DOMAIN g |-> g[i].rec]
             losers  == [i \in DOMAIN l |-> l[i].rec]
         IN  IF \E i \in DOMAIN g : ~g[i].ok THEN MoversFailure("ValueError")
             ELSE IF \E i \in DOMAIN l : ~l[i].ok THEN MoversFailure("ValueError")
             ELSE [status |-> "success",
                   report |-> MoversReport(gainers, losers),
                   gainers |-> gainers,
                   losers |-> losers,
                   last_updated |-> Get(data, "last_updated", "Unknown")]

(* -------------------------------------------------------- Python values *)
PyNone == [type |-> "NoneType", chars |-> <<>>]
PyStr(chars) == [type |-> "str", chars |-> chars]

UpperChar(c) ==
    CASE c = "a" -> "A" [] c = "b" -> "B" [] c = "p" -> "P" [] c = "l" -> "L"
      [] OTHER -> c

\* str.upper()
Upper(chars) == [i \in DOMAIN chars |-> UpperChar(chars[i])]

RECURSIVE Join(_)
Join(chars) == IF chars = <<>> THEN "" ELSE Head(chars) \o Join(Tail(chars))

\* str(x) as an f-string interpolates it
Str(x) == IF x.type = "str" THEN Join(x.chars) ELSE "None"

Tickers == {PyStr(<<"a", "b">>), PyStr(<<"A", "b">>), PyStr(<<"A", "B">>), PyNone}

(* ------------------------------------- get_stock_news / earnings highlights *)
MaxFeed == 2      \* longest feed array

\* the topics argument: the default [None], None, a list of topic names, or
\* a string of comma-separated topic names (a string has one item, its text,
\* and the empty string none)
DefaultTopics == [type |-> "list", items |-> <<"None">>]
TopicsValues == {DefaultTopics,
                 [type |-> "NoneType", items |-> <<>>],
                 [type |-> "list", items |-> <<>>],
                 [type |-> "list", items |-> <<"'technology'">>],
                 [type |-> "list", items |-> <<"'earnings'", "'ipo'">>],
                 [type |-> "str", items |-> <<>>],
                 [type |-> "str", items |-> <<"earnings">>]}

\* truth value of the topics argument
Truthy(t) == t.type \in {"list", "str"} /\ t.items # <<>>

RECURSIVE CommaJoin(_)
CommaJoin(items) ==
    IF items = <<>> THEN ""
    ELSE IF Len(items) = 1 THEN items[1]
    ELSE items[1] \o ", " \o CommaJoin(Tail(items))

\* str(topics)
TopicsStr(t) ==
    IF t.type = "list" THEN "[" \o CommaJoin(t.items) \o "]"
    ELSE IF t.type = "str" THEN CommaJoin(t.items)
    ELSE "None"

ArticleKeys == {"title", "url", "source", "summary", "time_published"}

ArticleValue(k, n) ==
    CASE k = "title" -> "Headline " \o ToString(n)
      [] k = "url" -> "https://news.example/" \o ToString(n)
      [] k = "source" -> "Newswire"
      [] k = "summary" -> "Summary " \o ToString(n)
      [] OTHER -> "20240102T1615" \o ToString(n)

FeedEntries == {[k \in ArticleKeys |-> ArticleValue(k, 1)],
                [k \in {"title", "url"} |-> ArticleValue(k, 2)],
                [k \in {} |-> ""]}

\* the JSON object of a news reply: feed absent, not an array, or an array
NewsBodies ==
    {NotJson,
     [json |-> TRUE, data |-> [k \in {"Information"} |-> "rate limit"]],
     [json |-> TRUE, data |-> [k \in {"feed"} |-> [list |-> FALSE, items |-> <<>>]]]} \cup
    {[json |-> TRUE, data |-> [k \in {"feed"} |-> [list |-> TRUE, items |-> f]]] :
        f \in SeqsUpTo(FeedEntries, MaxFeed)}

NewsResponses == {ExceptionResp} \cup FailResp("Bad Gateway") \cup OkResp(NewsBodies)

Article(a) ==
    [title |-> Get(a, "title", "No Title Available"),
     url |-> Get(a, "url", "#"),
     source |-> Get(a, "source", "Unknown Source"),
     summary |-> Get(a, "summary", "No summary available."),
     time_published |-> Get(a, "time_published", "Unknown Time")]

\* mutant: only the first entry of the feed is kept
ArticlesFirstOnly(data) ==
    IF "feed" \in DOMAIN data /\ data["feed"].list
    THEN [i \in DOMAIN PySlice(data["feed"].items, 1) |-> Article(data["feed"].items[i])]
    ELSE <<>>

Articles(data) ==
    IF "feed" \in DOMAIN data /\ data["feed"].list
    THEN [i \in DOMAIN data["feed"].items |-> Article(data["feed"].items[i])]
    ELSE <<>>

NewsUrl(ticker, limit, topics) ==
    [function |-> "NEWS_SENTIMENT", tickers |-> Join(Upper(ticker.chars)),
     limit |-> limit, hasTopics |-> Truthy(topics),
     topics |-> IF Truthy(topics) THEN TopicsStr(topics) ELSE ""]

\* the two handlers of get_stock_news
NewsFailure(ticker, kind) ==
    [status |-> "error",
     error_message |->
        <<IF kind = "RequestException" THEN "Request error fetching news for "
                                       ELSE "Failed to retrieve news for ",
          Str(ticker), ": ", ExcText(kind)>>]

\* mutant: the ticker is echoed as the caller wrote it
StockNewsRawTicker(ticker, topics, r, jsonKind) ==
    IF r.kind = "exception" THEN NewsFailure(ticker, "RequestException")
    ELSE IF r.code # HTTP_OK
    THEN [status |-> "error",
          error_message |-> <<"API request failed with status code ", ToString(r.code),
                              ". Response: ", r.body.text>>]
    ELSE IF ~r.body.json THEN NewsFailure(ticker, jsonKind)
    ELSE [status |-> "success",
          ticker |-> ticker.chars,
          articles |-> Articles(r.body.data),
          topics |-> topics]

\* the envelope get_stock_news returns for an upstream reply; jsonKind is the
\* class of the error response.json() raises for a body that is not JSON
StockNews(ticker, topics, r, jsonKind) ==
    IF r.kind = "exception" THEN NewsFailure(ticker, "RequestException")
    ELSE IF r.code # HTTP_OK
    THEN [status |-> "error",
          error_message |-> <<"API request failed with status code ", ToString(r.code),
                              ". Response: ", r.body.text>>]
    ELSE IF ~r.body.json THEN NewsFailure(ticker, jsonKind)
    ELSE [status |-> "success",
          ticker |-> Upper(ticker.chars),
          articles |-> Articles(r.body.data),
          topics |-> topics]

EarningsUrl(ticker, limit) ==
    [function |-> "NEWS_SENTIMENT", tickers |-> Join(Upper(ticker.chars)),
     limit |-> limit, hasTopics |-> TRUE, topics |-> "earnings"]

\* mutant: the handlers answer as those of get_stock_news, without the ticker
EarningsFailureNoTicker(ticker, kind) ==
    [status |-> "error",
     error_message |->
        <<IF kind = "RequestException" THEN "Request error fetching earnings news for "
                                       ELSE "Failed to retrieve earnings news for ",
          Str(ticker), ": ", ExcText(kind)>>]

\* the two handlers of get_earnings_call_news_highlights; both call
\* ticker.upper() again
EarningsFailure(ticker, kind) ==
    [status |-> "error",
     ticker |-> Upper(ticker.chars),
     error_message |->
        <<IF kind = "RequestException" THEN "Request error fetching earnings news for "
                                       ELSE "Failed to retrieve earnings news for ",
          Str(ticker), ": ", ExcText(kind)>>]

\* mutant: the feed is iterated without the test that it is a list
EarningsNewsAnyFeed(ticker, r, jsonKind) ==
    IF r.kind = "exception" THEN EarningsFailure(ticker, "RequestException")
    ELSE IF r.code # HTTP_OK
    THEN [status |-> "error",
          ticker |-> Upper(ticker.chars),
          error_message |-> <<"API request failed with status code ", ToString(r.code),
                              ". Response: ", r.body.text>>]
    ELSE IF ~r.body.json THEN EarningsFailure(ticker, jsonKind)
    ELSE IF "feed" \in DOMAIN r.body.data /\ ~r.body.data["feed"].list
    THEN EarningsFailure(ticker, "AttributeError")
    ELSE [status |-> "success",
          ticker |-> Upper(ticker.chars),
          articles |-> Articles(r.body.data),
          topic_filtered |-> "earnings",
          note |-> "Results show news articles related to earnings calls, not the full transcript text."]

EarningsNews(ticker, r, jsonKind) ==
    IF r.kind = "exception" THEN EarningsFailure(ticker, "RequestException")
    ELSE IF r.code # HTTP_OK
    THEN [status |-> "error",
          ticker |-> Upper(ticker.chars),
          error_message |-> <<"API request failed with status code ", ToString(r.code),
                              ". Response: ", r.body.text>>]
    ELSE IF ~r.body.json THEN EarningsFailure(ticker, jsonKind)
    ELSE [status |-> "success",
          ticker |-> Upper(ticker.chars),
          articles |-> Articles(r.body.data),
          topic_filtered |-> "earnings",
          note |-> "Results show news articles related to earnings calls, not the full transcript text."]

\* response.json() raises requests' JSONDecodeError, a RequestException in
\* recent releases of the library and a plain ValueError in older ones
JsonErrorKinds == {"RequestException", "JSONDecodeError"}

(* ------------------------------------------- get_historical_yahoo_finance *)
MaxRows == 2      \* most rows in a provider table

Periods == {"1y", "5d"}
Intervals == {"1d", "1h"}

\* a provider table: the name of its index column, the type of the index
\* values, and its rows; t is the day of the row's time stamp
HistRows == [t : 1..2, Close : {10, 11}]
HistTables == [index : {"Date", "Datetime", "index"},
               stamp : {"Timestamp", "date"},
               rows : SeqsUpTo(HistRows, MaxRows)]

HistoryResponses ==
    {[kind |-> "exception", table |-> [index |-> "Date", stamp |-> "Timestamp", rows |-> <<>>]]}
    \cup {[kind |-> "table", table |-> t] : t \in HistTables}

\* Timestamp.strftime('%Y-%m-%d %H:%M:%S')
Strftime(t) == <<"2024", "-", "01", "-", PadDigits(t, 2), " ", "00", ":", "00", ":", "00">>

\* str() of an index value that is not a Timestamp
DateStr(t) == <<"2024", "-", "01", "-", PadDigits(t, 2)>>

\* one record of reset_index().to_dict('records') after the renaming loop
HistRecord(table, row) ==
    LET renamed == table.index \in {"Date", "Datetime"}
        popped  == renamed /\ table.stamp = "Timestamp"
        keys    == {"Close"} \cup (IF popped THEN {} ELSE {table.index})
                             \cup (IF renamed THEN {"date_time"} ELSE {})
    IN  [k \in keys |->
            CASE k = "Close" -> row.Close
              [] k = "date_time" -> IF table.stamp = "Timestamp" THEN Strftime(row.t)
                                    ELSE DateStr(row.t)
              [] OTHER -> [type |-> table.stamp, t |-> row.t]]

HistoryFailure(ticker, period, interval, kind) ==
    [status |-> "error",
     error_message |-> <<"Failed to retrieve historical data for ", Str(ticker), " (",
                         period, ", ", interval, "): ", ExcText(kind)>>]

\* mutant: a table with no rows is not told apart from one with rows
HistoricalNoEmptyCheck(ticker, period, interval, r) ==
    IF r.kind = "exception" THEN HistoryFailure(ticker, period, interval, "RequestException")
    ELSE IF ticker.type # "str"
    THEN HistoryFailure(ticker, period, interval, "AttributeError")
    ELSE [status |-> "success",
          ticker |-> Upper(ticker.chars),
          period |-> period,
          interval |-> interval,
          data |-> [i \in DOMAIN r.table.rows |-> HistRecord(r.table, r.table.rows[i])]]

\* mutant: the records are handed back newest first
HistoricalNewestFirst(ticker, period, interval, r) ==
    IF r.kind = "exception" THEN HistoryFailure(ticker, period, interval, "RequestException")
    ELSE IF r.table.rows = <<>>
    THEN [status |-> "error",
          error_message |-> <<"No historical data found for ticker ", Str(ticker),
                              " with the specified period (", period,
                              ") and interval (", interval, ").">>]
    ELSE IF ticker.type # "str"
    THEN HistoryFailure(ticker, period, interval, "AttributeError")
    ELSE [status |-> "success",
          ticker |-> Upper(ticker.chars),
          period |-> period,
          interval |-> interval,
          data |-> [i \in DOMAIN r.table.rows |->
                      HistRecord(r.table, r.table.rows[Len(r.table.rows) + 1 - i])]]

\* the envelope get_historical_yahoo_finance returns for a provider reply
Historical(ticker, period, interval, r) ==
    IF r.kind = "exception" THEN HistoryFailure(ticker, period, interval, "RequestException")
    ELSE IF r.table.rows = <<>>
    THEN [status |-> "error",
          error_message |-> <<"No historical data found for ticker ", Str(ticker),
                              " with the specified period (", period,
                              ") and interval (", interval, ").">>]
    ELSE IF ticker.type # "str"
    THEN HistoryFailure(ticker, period, interval, "AttributeError")
    ELSE [status |-> "success",
          ticker |-> Upper(ticker.chars),
          period |-> period,
          interval |-> interval,
          data |-> [i \in DOMAIN r.table.rows |-> HistRecord(r.table, r.table.rows[i])]]

(* ----------------------------------------------------- get_stock_details *)
Symbols == {"IBM", "msft"}

\* MarketCapitalization as the provider sends it: a digit string, or "None"
McapValues == {<<"0">>,
               <<"4", "9", "9", "9", "9", "9", "9">>,
               <<"1", "2", "3", "4", "5", "6", "7", "8", "9", "0">>,
               <<"2", "9", "9", "5", "0", "0", "0", "0", "0", "1">>,
               <<"1", "0", "0", "5", "0", "0", "0", "0", "0", "0">>,
               <<"N", "o", "n", "e">>}

OverviewKeys == {"Symbol", "Name", "Sector", "Industry", "MarketCapitalization",
                 "PERatio", "DividendYield", "52WeekHigh", "52WeekLow", "Description"}

OverviewValue(k, mcap) ==
    CASE k = "Symbol" -> "IBM"
      [] k = "Name" -> "International Business Machines"
      [] k = "Sector" -> "TECHNOLOGY"
      [] k = "Industry" -> "COMPUTER & OFFICE EQUIPMENT"
      [] k = "MarketCapitalization" -> mcap
      [] k = "PERatio" -> "22.5"
      [] k = "DividendYield" -> "0.0451"
      [] k = "52WeekHigh" -> "199.18"
      [] k = "52WeekLow" -> "130.68"
      [] OTHER -> "International Business Machines Corporation is a technology company."

\* the JSON object of an overview reply: any subset of the fields
OverviewBodies ==
    {NotJson} \cup
    {[json |-> TRUE, data |-> [k \in D |-> OverviewValue(k, mcap)]] :
        D \in SUBSET OverviewKeys, mcap \in McapValues}

OverviewResponses == {ExceptionResp} \cup FailResp("") \cup OkResp(OverviewBodies)

QuoteFull == [p05 |-> <<"1", "5", "0", ".", "2", "5">>,
              p08 |-> <<"1", "4", "9", ".", "0">>,
              p09 |-> <<"1", ".", "2", "5">>,
              p10 |-> <<"0", ".", "8", "3", "8", "9", "%">>,
              p06 |-> <<"1", "2", "3", "4", "5", "6", "7">>]
QuoteDown == [p05 |-> <<"9", "9">>,
              p09 |-> <<"-", "2", ".", "5">>,
              p10 |-> <<"-", "2", ".", "4", "6", "%">>,
              p06 |-> <<"9", "9", "9">>]
QuoteEmpty == [p \in {} |-> <<>>]
QuoteBadPrice == [p05 |-> <<"a", "b", "c">>, p06 |-> <<"1">>]
QuoteBadVolume == [p05 |-> <<"1">>, p06 |-> <<"1", ".", "5">>]

\* keys p05.. stand for "05. price", "06. volume", "08. previous close",
\* "09. change", "10. change percent"
QuoteBodies ==
    {NotJson, [json |-> TRUE, data |-> [k \in {} |-> QuoteEmpty]]} \cup
    {[json |-> TRUE, data |-> [k \in {"Global Quote"} |-> q]] :
        q \in {QuoteFull, QuoteDown, QuoteEmpty, QuoteBadPrice, QuoteBadVolume}}

QuoteResponses == {ExceptionResp} \cup FailResp("") \cup OkResp(QuoteBodies)

\* float(s) of a market capitalisation, kept as hi * 10^7 + lo so that the
\* value fits; frac tells whether a non-zero fraction follows
ParseCap(s) ==
    LET body == StripSign(s)
        d    == DotAt(body)
        ip   == IF d = 0 THEN body ELSE SubSeq(body, 1, d - 1)
        fp   == IF d = 0 THEN <<>> ELSE SubSeq(body, d + 1, Len(body))
        cut  == Max(Len(ip) - 7, 0)
    IN  IF AllDigits(ip) /\ AllDigits(fp) /\ Len(ip) + Len(fp) > 0
        THEN [ok |-> TRUE, neg |-> SignOf(s) < 0,
              hi |-> DigitsVal(SubSeq(ip, 1, cut)),
              lo |-> DigitsVal(SubSeq(ip, cut + 1, Len(ip))),
              frac |-> DigitsVal(fp) > 0]
        ELSE [ok |-> FALSE, neg |-> FALSE, hi |-> 0, lo |-> 0, frac |-> FALSE]

\* mutant: the quotient is cut off after two decimals
HundredthsTruncated(cap, tieUp) == cap.hi

\* f"{x / 1e9:.2f}": hundredths of a billion, rounded to nearest; when the
\* quotient lies exactly half way the binary value of the double decides,
\* which tieUp stands for
Hundredths(cap, tieUp) ==
    cap.hi + (IF cap.lo > 5000000 \/ (cap.lo = 5000000 /\ (cap.frac \/ tieUp))
              THEN 1 ELSE 0)

\* a count of hundredths written with two decimals
TwoDecimals(h) == ToString(h \div 100) \o "." \o PadDigits(h % 100, 2)

BillionsStr(cap, tieUp) ==
    (IF cap.neg THEN "-" ELSE "") \o TwoDecimals(Hundredths(cap, tieUp))

\* f"{n:,}"
RECURSIVE Grouped(_)
Grouped(n) ==
    IF n < 0 THEN "-" \o Grouped(-n)
    ELSE IF n < 1000 THEN ToString(n)
    ELSE Grouped(n \div 1000) \o "," \o PadDigits(n % 1000, 3)

Plus(f) == IF f.m >= 0 THEN "+" ELSE ""

DetailsFailure(symbol, kind) ==
    [status |-> "error",
     error_message |-> <<"Failed to retrieve stock details for ", symbol, ": ", ExcText(kind)>>]

\* mutant: the message leaves the status code out
StatusFailureNoCode(code) ==
    [status |-> "error", error_message |-> <<"API request failed">>]

StatusFailure(code) ==
    [status |-> "error",
     error_message |-> <<"API request failed with status code ", ToString(code)>>]

\* mutant: the Symbol field is not looked for
OverviewOutcomeAnyBody(symbol, r) ==
    IF r.kind = "exception"
    THEN [go |-> FALSE, env |-> DetailsFailure(symbol, "RequestException")]
    ELSE IF r.code # HTTP_OK THEN [go |-> FALSE, env |-> StatusFailure(r.code)]
    ELSE IF ~r.body.json THEN [go |-> FALSE, env |-> DetailsFailure(symbol, "JSONDecodeError")]
    ELSE [go |-> TRUE, env |-> NoEnvelope]

\* the outcome of the overview call: an envelope to return, or go on to the quote
OverviewOutcome(symbol, r) ==
    IF r.kind = "exception"
    THEN [go |-> FALSE, env |-> DetailsFailure(symbol, "RequestException")]
    ELSE IF r.code # HTTP_OK THEN [go |-> FALSE, env |-> StatusFailure(r.code)]
    ELSE IF ~r.body.json THEN [go |-> FALSE, env |-> DetailsFailure(symbol, "JSONDecodeError")]
    ELSE IF "Symbol" \notin DOMAIN r.body.data
    THEN [go |-> FALSE,
          env |-> [status |-> "error",
                   error_message |-> <<"No data found for symbol ", symbol>>]]
    ELSE [go |-> TRUE, env |-> NoEnvelope]

\* mutant: the default of a missing Sector or PERatio is the empty string
DetailsReportBlank(symbol, o, price, change, pct, cap, tieUp, volume) ==
    <<"Stock Details for ", symbol, " (", Get(o, "Name", symbol), "):\n",
      "Price: $", FloatStr(price), "\n",
      "Change: ", Plus(change) \o FloatStr(change), " (", Plus(pct) \o FloatStr(pct), "%)\n",
      "Sector: ", Get(o, "Sector", ""), "\n",
      "Industry: ", Get(o, "Industry", "Unknown"), "\n",
      "Market Cap: $", BillionsStr(cap, tieUp), " billion\n",
      "P/E Ratio: ", Get(o, "PERatio", ""), "\n",
      "Dividend Yield: ", Get(o, "DividendYield", "N/A"), "\n",
      "52-week High: $", Get(o, "52WeekHigh", "N/A"), "\n",
      "52-week Low: $", Get(o, "52WeekLow", "N/A"), "\n",
      "Volume: ", Grouped(volume), "\n">>

DetailsReport(symbol, o, price, change, pct, cap, tieUp, volume) ==
    <<"Stock Details for ", symbol, " (", Get(o, "Name", symbol), "):\n",
      "Price: $", FloatStr(price), "\n",
      "Change: ", Plus(change) \o FloatStr(change), " (", Plus(pct) \o FloatStr(pct), "%)\n",
      "Sector: ", Get(o, "Sector", "Unknown"), "\n",
      "Industry: ", Get(o, "Industry", "Unknown"), "\n",
      "Market Cap: $", BillionsStr(cap, tieUp), " billion\n",
      "P/E Ratio: ", Get(o, "PERatio", "N/A"), "\n",
      "Dividend Yield: ", Get(o, "DividendYield", "N/A"), "\n",
      "52-week High: $", Get(o, "52WeekHigh", "N/A"), "\n",
      "52-week Low: $", Get(o, "52WeekLow", "N/A"), "\n",
      "Volume: ", Grouped(volume), "\n">>

\* parsing of the quote and the merge of both replies into the result
DetailsMerge(symbol, o, r, tieUp) ==
    IF ~r.body.json THEN DetailsFailure(symbol, "JSONDecodeError")
    ELSE LET q      == Get(r.body.data, "Global Quote", QuoteEmpty)
             price  == ParseFloat(Get(q, "p05", <<"0">>))
             prev   == ParseFloat(Get(q, "p08", <<"0">>))
             change == ParseFloat(Get(q, "p09", <<"0">>))
             pct    == ParseFloat(Remove(Get(q, "p10", <<"0", "%">>), "%"))
             cap    == ParseCap(Get(o, "MarketCapitalization", <<"0">>))
             volume == ParseInt(Get(q, "p06", <<"0">>))
         IN  IF ~(price.ok /\ prev.ok /\ change.ok /\ pct.ok /\ cap.ok /\ volume.ok)
             THEN DetailsFailure(symbol, "ValueError")
             ELSE [status |-> "success",
                   report |-> DetailsReport(symbol, o, price.v, change.v, pct.v,
                                            cap, tieUp, volume.v),
                   symbol |-> symbol,
                   name |-> Get(o, "Name", symbol),
                   price |-> price.v,
                   change |-> change.v,
                   change_percent |-> pct.v,
                   sector |-> Get(o, "Sector", "Unknown"),
                   industry |-> Get(o, "Industry", "Unknown"),
                   description |-> Get(o, "Description", "")]

\* mutant: a failed quote call still hands back what the overview gave
StockDetailsPartial(symbol, o, r, tieUp) ==
    IF r.kind = "exception" THEN DetailsFailure(symbol, "RequestException")
    ELSE IF r.code # HTTP_OK
    THEN [status |-> "error",
          error_message |-> <<"API request failed with status code ", ToString(r.code)>>,
          name |-> Get(o, "Name", symbol),
          sector |-> Get(o, "Sector", "Unknown"),
          industry |-> Get(o, "Industry", "Unknown")]
    ELSE DetailsMerge(symbol, o, r, tieUp)

\* the envelope get_stock_details returns once the quote call has completed
StockDetails(symbol, o, r, tieUp) ==
    IF r.kind = "exception" THEN DetailsFailure(symbol, "RequestException")
    ELSE IF r.code # HTTP_OK THEN StatusFailure(r.code)
    ELSE DetailsMerge(symbol, o, r, tieUp)

(* ------------------------------------------------------------ invocation *)
\* no earlier call has been kept
NothingSeen == [op |-> "none"]

Init ==
    /\ pc = "idle"
    /\ op = "none"
    /\ args = NoArgs
    /\ reqs = <<>>
    /\ resp = NoResp
    /\ ov = NoResp
    /\ ret = NoEnvelope
    /\ escaped = "none"
    /\ topics_default = DefaultTopics
    /\ seen = NothingSeen

Enter(o, a) ==
    /\ pc = "idle"
    /\ pc' = "entered"
    /\ op' = o
    /\ args' = a
    /\ UNCHANGED <<reqs, resp, ov, ret, escaped, topics_default, seen>>

\* the blocking upstream call completes with one of the replies
Complete(o, replies) ==
    /\ pc = "waiting"
    /\ op = o
    /\ \E r \in replies : resp' = r
    /\ pc' = "replied"
    /\ UNCHANGED <<op, args, reqs, ov, ret, escaped, topics_default, seen>>

Return(o, envelope) ==
    /\ pc' = "done"
    /\ ret' = envelope
    /\ UNCHANGED <<op, args, reqs, resp, ov, escaped, topics_default, seen>>

\* the caller takes the result and the invocation's locals are gone
Finish ==
    /\ pc = "done"
    /\ pc' = "idle"
    /\ op' = "none"
    /\ args' = NoArgs
    /\ reqs' = <<>>
    /\ resp' = NoResp
    /\ ov' = NoResp
    /\ ret' = NoEnvelope
    /\ escaped' = "none"
    /\ UNCHANGED <<topics_default, seen>>

CallMovers == \E limit \in (-1)..MaxLimit : Enter("get_market_movers", [limit |-> limit])

MoversRequest ==
    /\ pc = "entered"
    /\ op = "get_market_movers"
    /\ reqs' = Append(reqs, [function |-> "TOP_GAINERS_LOSERS"])
    /\ pc' = "waiting"
    /\ UNCHANGED <<op, args, resp, ov, ret, escaped, topics_default, seen>>

MoversReply == Complete("get_market_movers", MoversResponses)

\* mutant: a transport failure is answered by asking once more
MoversResultRetry ==
    /\ pc = "replied"
    /\ op = "get_market_movers"
    /\ IF resp.kind = "exception" /\ Len(reqs) < 2
       THEN /\ pc' = "entered"
            /\ UNCHANGED <<op, args, reqs, resp, ov, ret, escaped, topics_default, seen>>
       ELSE Return(op, MarketMovers(args.limit, resp))

MoversResult ==
    /\ pc = "replied"
    /\ op = "get_market_movers"
    /\ Return(op, MarketMovers(args.limit, resp))

CallDetails == \E symbol \in Symbols : Enter("get_stock_details", [symbol |-> symbol])

DetailsOverviewRequest ==
    /\ pc = "entered"
    /\ op = "get_stock_details"
    /\ reqs' = Append(reqs, [function |-> "OVERVIEW", symbol |-> args.symbol])
    /\ pc' = "waiting"
    /\ UNCHANGED <<op, args, resp, ov, ret, escaped, topics_default, seen>>

DetailsOverviewReply ==
    /\ Len(reqs) = 1
    /\ Complete("get_stock_details", OverviewResponses)

\* from the overview reply to the return or to the quote request
DetailsOverviewResult ==
    /\ pc = "replied"
    /\ op = "get_stock_details"
    /\ Len(reqs) = 1
    /\ LET out == OverviewOutcome(args.symbol, resp)
       IN  IF out.go
           THEN /\ ov' = resp
                /\ reqs' = Append(reqs, [function |-> "GLOBAL_QUOTE", symbol |-> args.symbol])
                /\ pc' = "waiting"
                /\ UNCHANGED <<op, args, resp, ret, escaped, topics_default, seen>>
           ELSE Return(op, out.env)

DetailsQuoteReply ==
    /\ Len(reqs) = 2
    /\ Complete("get_stock_details", QuoteResponses)

DetailsQuoteResult ==
    /\ pc = "replied"
    /\ op = "get_stock_details"
    /\ Len(reqs) = 2
    /\ \E tieUp \in BOOLEAN : Return(op, StockDetails(args.symbol, ov.body.data, resp, tieUp))

\* an exception leaves the function: the caller gets no envelope
Escape(kind) ==
    /\ pc' = "done"
    /\ escaped' = kind
    /\ UNCHANGED <<op, args, reqs, resp, ov, ret, topics_default, seen>>

\* the caller passes topics or leaves it out, and then the default applies
CallNews ==
    \E ticker \in Tickers, limit \in 0..MaxLimit, given \in BOOLEAN, passed \in TopicsValues :
        /\ ~given => passed = topics_default
        /\ Enter("get_stock_news",
                 [ticker |-> ticker, limit |-> limit, given |-> given, topics |-> passed])

\* builds the URL and issues the request; ticker.upper() fails on a ticker
\* that is not a string and the generic handler answers
NewsRequest ==
    /\ pc = "entered"
    /\ op = "get_stock_news"
    /\ IF args.ticker.type = "str"
       THEN /\ reqs' = Append(reqs, NewsUrl(args.ticker, args.limit, args.topics))
            /\ pc' = "waiting"
            /\ UNCHANGED <<op, args, resp, ov, ret, escaped, topics_default, seen>>
       ELSE Return(op, NewsFailure(args.ticker, "AttributeError"))

NewsReply == Complete("get_stock_news", NewsResponses)

\* mutant: a call that omitted topics empties the shared default list
\* (topics.clear()) before it returns
NewsResultClearsTopics ==
    /\ pc = "replied"
    /\ op = "get_stock_news"
    /\ \E jsonKind \in JsonErrorKinds :
          /\ pc' = "done"
          /\ ret' = StockNews(args.ticker, args.topics, resp, jsonKind)
          /\ topics_default' = IF args.given THEN topics_default
                                ELSE [type |-> "list", items |-> <<>>]
          /\ UNCHANGED <<op, args, reqs, resp, ov, escaped, seen>>

NewsResult ==
    /\ pc = "replied"
    /\ op = "get_stock_news"
    /\ \E jsonKind \in JsonErrorKinds :
          Return(op, StockNews(args.ticker, args.topics, resp, jsonKind))

CallEarnings ==
    \E ticker \in Tickers, limit \in 0..MaxLimit :
        Enter("get_earnings_call_news_highlights", [ticker |-> ticker, limit |-> limit])

\* builds the URL and issues the request; ticker.upper() fails on a ticker
\* that is not a string, and fails again inside the handler
EarningsRequest ==
    /\ pc = "entered"
    /\ op = "get_earnings_call_news_highlights"
    /\ IF args.ticker.type = "str"
       THEN /\ reqs' = Append(reqs, EarningsUrl(args.ticker, args.limit))
            /\ pc' = "waiting"
            /\ UNCHANGED <<op, args, resp, ov, ret, escaped, topics_default, seen>>
       ELSE Escape("AttributeError")

EarningsReply == Complete("get_earnings_call_news_highlights", NewsResponses)

EarningsResult ==
    /\ pc = "replied"
    /\ op = "get_earnings_call_news_highlights"
    /\ \E jsonKind \in JsonErrorKinds :
          Return(op, EarningsNews(args.ticker, resp, jsonKind))

CallHistorical ==
    \E ticker \in Tickers, period \in Periods, interval \in Intervals :
        Enter("get_historical_yahoo_finance",
              [ticker |-> ticker, period |-> period, interval |-> interval])

\* yf.Ticker(ticker).history(...): the library may reject a ticker that is
\* not a string before it calls the provider
HistoricalRequest ==
    /\ pc = "entered"
    /\ op = "get_historical_yahoo_finance"
    /\ \/ /\ reqs' = Append(reqs, [function |-> "history", ticker |-> Str(args.ticker),
                                   period |-> args.period, interval |-> args.interval])
          /\ pc' = "waiting"
          /\ UNCHANGED <<op, args, resp, ov, ret, escaped, topics_default, seen>>
       \/ /\ args.ticker.type # "str"
          /\ Return(op, HistoryFailure(args.ticker, args.period, args.interval,
                                       "AttributeError"))

HistoricalReply == Complete("get_historical_yahoo_finance", HistoryResponses)

HistoricalResult ==
    /\ pc = "replied"
    /\ op = "get_historical_yahoo_finance"
    /\ Return(op, Historical(args.ticker, args.period, args.interval, resp))

Next ==
    \/ CallMovers
    \/ MoversRequest
    \/ MoversReply
    \/ MoversResult
    \/ CallDetails
    \/ DetailsOverviewRequest
    \/ DetailsOverviewReply
    \/ DetailsOverviewResult
    \/ DetailsQuoteReply
    \/ DetailsQuoteResult
    \/ CallNews
    \/ NewsRequest
    \/ NewsReply
    \/ NewsResult
    \/ CallEarnings
    \/ EarningsRequest
    \/ EarningsReply
    \/ EarningsResult
    \/ CallHistorical
    \/ HistoricalRequest
    \/ HistoricalReply
    \/ HistoricalResult
    \/ Finish

Spec == Init /\ [][Next]_vars

(* --------------------------------------------------------------- progress *)
\* the statements of the function that is running: the interpreter goes on
\* to the next one
ProgramStep ==
    \/ MoversRequest
    \/ MoversResult
    \/ DetailsOverviewRequest
    \/ DetailsOverviewResult
    \/ DetailsQuoteResult
    \/ NewsRequest
    \/ NewsResult
    \/ EarningsRequest
    \/ EarningsResult
    \/ HistoricalRequest
    \/ HistoricalResult

\* the blocking call into the HTTP or provider library comes back, with a
\* response or with an exception
UpstreamReply ==
    \/ MoversReply
    \/ DetailsOverviewReply
    \/ DetailsQuoteReply
    \/ NewsReply
    \/ EarningsReply
    \/ HistoricalReply

(* -------------------------------------------------- repeated invocations *)
\* the arguments as the caller wrote them: an omitted topics is no argument
CallerArgs ==
    IF op = "get_stock_news" /\ ~args.given
    THEN [ticker |-> args.ticker, limit |-> args.limit]
    ELSE args

\* the structure of a returned dict: its status, its keys, the keys of the
\* records in each of its lists, and the type of the topics value
Shape(e) ==
    [status |-> e.status,
     keys |-> DOMAIN e,
     lists |-> [k \in DOMAIN e \cap {"gainers", "losers", "articles", "data"} |->
                  [i \in DOMAIN e[k] |-> DOMAIN e[k][i]]],
     topics |-> IF "topics" \in DOMAIN e THEN e["topics"].type ELSE "absent"]

\* the finished call as its caller saw it: what was asked, what the upstream
\* answered, the requests that went out and the structure of the outcome
Kept ==
    [op |-> op, args |-> CallerArgs, replies |-> <<ov, resp>>, reqs |-> reqs,
     escaped |-> escaped, shape |-> Shape(ret), later |-> FALSE]

\* as Finish, and the caller keeps the first call it chooses to keep; a
\* call finished after that one is marked on it
FinishKept ==
    /\ pc = "done"
    /\ pc' = "idle"
    /\ op' = "none"
    /\ args' = NoArgs
    /\ reqs' = <<>>
    /\ resp' = NoResp
    /\ ov' = NoResp
    /\ ret' = NoEnvelope
    /\ escaped' = "none"
    /\ seen' = IF seen = NothingSeen THEN Kept ELSE [seen EXCEPT !.later = TRUE]
    /\ UNCHANGED topics_default

\* the arguments and upstream fixtures of the repeated calls
ProbeTickers == {PyStr(<<"a", "b">>), PyNone}
ProbeTopics == {DefaultTopics,
                [type |-> "NoneType", items |-> <<>>],
                [type |-> "list", items |-> <<"'technology'">>]}
ProbeData ==
    {MoversData(TRUE, <<MoverB>>, TRUE, l, TRUE) : l \in {<<MoverA>>, <<MoverBad>>}}
    \cup {[k \in {"Information"} |-> "rate limit"]}
    \cup {[k \in {"feed"} |-> [list |-> TRUE, items |-> f]] : f \in SeqsUpTo(FeedEntries, 1)}
    \cup {[k \in D |-> OverviewValue(k, <<"0">>)] : D \in {OverviewKeys, {"Name"}}}
    \cup {[k \in {"Global Quote"} |-> q] : q \in {QuoteFull, QuoteBadPrice}}
ProbeReplies ==
    {NoResp, ExceptionResp} \cup FailResp("") \cup FailResp("Bad Gateway")
    \cup OkResp({NotJson} \cup {[json |-> TRUE, data |-> d] : d \in ProbeData})
    \cup {r \in HistoryResponses :
            /\ r.table.index \in {"Date", "index"}
            /\ r.table.rows \in SeqsUpTo({[t |-> 1, Close |-> 10]}, 1)}

InProbe ==
    \/ pc = "idle"
    \/ /\ "limit" \in DOMAIN args => args.limit = 1
       /\ "ticker" \in DOMAIN args => args.ticker \in ProbeTickers
       /\ ("topics" \in DOMAIN args /\ args.given) => args.topics \in ProbeTopics
       /\ "symbol" \in DOMAIN args => args.symbol = "IBM"
       /\ "period" \in DOMAIN args => (args.period = "1y" /\ args.interval = "1d")
       /\ resp \in ProbeReplies

\* the same operations on the probe inputs, with a caller that keeps one
\* call to hold the later ones against
NextRepeat ==
    \/ CallMovers /\ InProbe'
    \/ MoversRequest /\ InProbe'
    \/ MoversReply /\ InProbe'
    \/ MoversResult /\ InProbe'
    \/ CallDetails /\ InProbe'
    \/ DetailsOverviewRequest /\ InProbe'
    \/ DetailsOverviewReply /\ InProbe'
    \/ DetailsOverviewResult /\ InProbe'
    \/ DetailsQuoteReply /\ InProbe'
    \/ DetailsQuoteResult /\ InProbe'
    \/ CallNews /\ InProbe'
    \/ NewsRequest /\ InProbe'
    \/ NewsReply /\ InProbe'
    \/ NewsResult /\ InProbe'
    \/ CallEarnings /\ InProbe'
    \/ EarningsRequest /\ InProbe'
    \/ EarningsReply /\ InProbe'
    \/ EarningsResult /\ InProbe'
    \/ CallHistorical /\ InProbe'
    \/ HistoricalRequest /\ InProbe'
    \/ HistoricalReply /\ InProbe'
    \/ HistoricalResult /\ InProbe'
    \/ Finish /\ InProbe'
    \/ FinishKept

SpecRepeat == Init /\ [][NextRepeat]_vars

\* the operations on the probe inputs
NextLive ==
    \/ CallMovers /\ InProbe'
    \/ MoversRequest /\ InProbe'
    \/ MoversReply /\ InProbe'
    \/ MoversResult /\ InProbe'
    \/ CallDetails /\ InProbe'
    \/ DetailsOverviewRequest /\ InProbe'
    \/ DetailsOverviewReply /\ InProbe'
    \/ DetailsOverviewResult /\ InProbe'
    \/ DetailsQuoteReply /\ InProbe'
    \/ DetailsQuoteResult /\ InProbe'
    \/ CallNews /\ InProbe'
    \/ NewsRequest /\ InProbe'
    \/ NewsReply /\ InProbe'
    \/ NewsResult /\ InProbe'
    \/ CallEarnings /\ InProbe'
    \/ EarningsRequest /\ InProbe'
    \/ EarningsReply /\ InProbe'
    \/ EarningsResult /\ InProbe'
    \/ CallHistorical /\ InProbe'
    \/ HistoricalRequest /\ InProbe'
    \/ HistoricalReply /\ InProbe'
    \/ HistoricalResult /\ InProbe'
    \/ Finish /\ InProbe'

\* the function that is running goes on to its next request or to its end:
\* the steps of ProgramStep, told by the positions they join, so that the
\* enabling of the action is read off the position
Proceeds ==
    /\ pc \in {"entered", "replied"}
    /\ pc' \in {"waiting", "done"}
    /\ UNCHANGED <<op, args, topics_default, seen>>
    /\ \/ UNCHANGED <<reqs, resp, ov, ret, escaped>>
       \/ <<reqs, resp, ov, ret, escaped>>' # <<reqs, resp, ov, ret, escaped>>

\* a running function keeps running, and every upstream request comes back
SpecLive ==
    /\ Init
    /\ [][NextLive]_vars
    /\ WF_vars(Proceeds)
    /\ WF_vars(UpstreamReply /\ InProbe')

(* ================================================================ claims *)
HttpOps == {"get_market_movers", "get_stock_details", "get_stock_news",
            "get_earnings_call_news_highlights"}

Returned == pc = "done" /\ escaped = "none"

\* the reply just received is an HTTP reply with a status other than 200
Non200 == resp.kind = "http" /\ resp.code # HTTP_OK

\* C1: every invocation that has finished has returned an envelope: no
\* exception has left the function, whatever the arguments and the upstream
\* outcome were.
C1_NothingEscapes ==
    pc = "done" => (escaped = "none" /\ ret.status \in {"success", "error"})

\* C2: when an upstream HTTP call of the four Alpha Vantage operations is
\* answered with a status other than 200, the operation returns status
\* "error" with a non-empty error_message that contains that status code.
C2_Non200IsError ==
    (pc = "done" /\ op \in HttpOps /\ Non200) =>
        /\ ret.status = "error"
        /\ ret.error_message # <<>>
        /\ Contains(ret.error_message, ToString(resp.code))

C2_Witness ==
    /\ pc = "done"
    /\ op = "get_stock_details"
    /\ Len(reqs) = 2
    /\ Non200
    /\ resp.code = 503
    /\ ret.status = "error"

\* the data fields of the success envelopes (the entities of the result)
PayloadKeys == {"report", "gainers", "losers", "last_updated", "symbol", "name",
                "price", "change", "change_percent", "sector", "industry",
                "description", "articles", "topics", "topic_filtered", "note", "data"}

\* the request echo fields
EchoKeys == {"ticker", "period", "interval"}

PayloadOf(o) ==
    CASE o = "get_market_movers" -> {"report", "gainers", "losers", "last_updated"}
      [] o = "get_stock_details" -> {"report", "symbol", "name", "price", "change",
                                     "change_percent", "sector", "industry", "description"}
      [] o = "get_stock_news" -> {"articles"}
      [] o = "get_earnings_call_news_highlights" -> {"articles"}
      [] OTHER -> {"data"}

\* C3: a returned envelope has status "success" or "error"; an error
\* envelope has an error_message (one non-empty text) and, request echo
\* fields aside, nothing else, so no payload field; a success envelope has
\* the payload of its operation and no error_message.
C3_EnvelopeShape ==
    Returned =>
        /\ ret.status \in {"success", "error"}
        /\ ret.status = "error" =>
              /\ (DOMAIN ret) \ EchoKeys = {"status", "error_message"}
              /\ (DOMAIN ret) \cap PayloadKeys = {}
              /\ ret.error_message # <<>>
        /\ ret.status = "success" =>
              /\ "error_message" \notin DOMAIN ret
              /\ PayloadOf(op) \subseteq DOMAIN ret

C3_Witness ==
    /\ Returned
    /\ op = "get_market_movers"
    /\ resp.kind = "http"
    /\ resp.code = HTTP_OK
    /\ ret.status = "error"
    /\ "gainers" \notin DOMAIN ret

\* the reply just received is a 200 whose body is a JSON object
Json200 == resp.kind = "http" /\ resp.code = HTTP_OK /\ resp.body.json

MoversDone == pc = "done" /\ op = "get_market_movers"

\* the upstream array under key, empty when the key is absent
Upstream(key) == IF key \in DOMAIN resp.body.data THEN resp.body.data[key] ELSE <<>>

\* list is the first min(limit, n) entries of the upstream array, in order
FirstEntries(list, top, limit) ==
    /\ Len(list) = Min(limit, Len(top))
    /\ \A i \in DOMAIN list :
          /\ list[i].symbol = Get(top[i], "ticker", "")
          /\ list[i] = MoverRecord(top[i]).rec

TruncatedLists ==
    /\ {"gainers", "losers"} \subseteq DOMAIN ret
    /\ FirstEntries(ret.gainers, Upstream("top_gainers"), args.limit)
    /\ FirstEntries(ret.losers, Upstream("top_losers"), args.limit)

\* C4 as stated: for every 200 movers reply and every limit >= 0 the result
\* holds the first min(limit, n) gainers and the first min(limit, m) losers
\* in upstream order.
C4_Original ==
    (MoversDone /\ Json200 /\ args.limit >= 0) => TruncatedLists

\* C4 amended: the same, for every 200 movers reply for which the call
\* returns status "success".
C4_TruncationKeepsOrder ==
    (MoversDone /\ Json200 /\ args.limit >= 0 /\ ret.status = "success") => TruncatedLists

C4_Witness ==
    /\ MoversDone
    /\ Json200
    /\ ret.status = "success"
    /\ args.limit = 1
    /\ Len(Upstream("top_gainers")) = 2
    /\ Upstream("top_gainers")[1] # Upstream("top_gainers")[2]
    /\ Len(ret.gainers) = 1
    /\ Len(Upstream("top_losers")) = 1

NewsDone == pc = "done" /\ op \in {"get_stock_news", "get_earnings_call_news_highlights"}

FeedEmptyOrAbsent ==
    \/ "feed" \notin DOMAIN resp.body.data
    \/ (resp.body.data["feed"].list /\ resp.body.data["feed"].items = <<>>)

EmptyList(key) == ret.status = "success" /\ key \in DOMAIN ret /\ ret[key] = <<>>

\* some entry of the first limit entries of the upstream array does not convert
BadEntry(key) ==
    \E i \in 1..Len(Upstream(key)) :
        /\ (args.limit >= i \/ (args.limit < 0 /\ i <= Len(Upstream(key)) + args.limit))
        /\ ~MoverRecord(Upstream(key)[i]).ok

\* C5 as stated: a 200 reply whose top_gainers / top_losers / feed array is
\* empty or absent gives status "success" with the corresponding list
\* present and empty (limit taken in its documented range, limit >= 0).
C5_Original ==
    /\ (MoversDone /\ Json200 /\ args.limit >= 0 /\ Upstream("top_gainers") = <<>>) =>
          EmptyList("gainers")
    /\ (MoversDone /\ Json200 /\ args.limit >= 0 /\ Upstream("top_losers") = <<>>) =>
          EmptyList("losers")
    /\ (NewsDone /\ Json200 /\ FeedEmptyOrAbsent) => EmptyList("articles")

\* C5 amended: for the two news operations as stated; for get_market_movers
\* an empty or absent array gives status "success" with the corresponding
\* list present and empty unless one of the processed entries of the other
\* array fails to convert, and only then the call returns an error.
C5_EmptyArrayIsSuccess ==
    /\ (MoversDone /\ Json200 /\ Upstream("top_gainers") = <<>>) =>
          IF BadEntry("top_losers") THEN ret.status = "error" ELSE EmptyList("gainers")
    /\ (MoversDone /\ Json200 /\ Upstream("top_losers") = <<>>) =>
          IF BadEntry("top_gainers") THEN ret.status = "error" ELSE EmptyList("losers")
    /\ (NewsDone /\ Json200 /\ FeedEmptyOrAbsent) => EmptyList("articles")

C5_Witness ==
    /\ MoversDone
    /\ Json200
    /\ "top_gainers" \notin DOMAIN resp.body.data
    /\ Len(Upstream("top_losers")) = 2
    /\ args.limit = 2
    /\ EmptyList("gainers")
    /\ Len(ret.losers) = 2

DetailsAt(p) == pc = p /\ op = "get_stock_details"

\* C6: within one invocation no upstream call is made twice: at most one
\* request per operation, for get_stock_details at most one overview and one
\* quote request, whatever the replies were.
C6_EachCallOnce ==
    /\ Len(reqs) <= (IF op = "get_stock_details" THEN 2 ELSE 1)
    /\ \A i, j \in DOMAIN reqs : i # j => reqs[i].function # reqs[j].function

C6_Witness ==
    /\ DetailsAt("done")
    /\ Len(reqs) = 2
    /\ resp.kind = "exception"
    /\ ret.status = "error"

\* C7: the quote request of get_stock_details is issued only in the step
\* that follows an overview reply with status 200 and a Symbol field; an
\* overview reply without Symbol makes the call return status "error" with
\* no further request.
C7_QuoteOnlyAfterSymbol ==
    /\ [][(op = "get_stock_details" /\ Len(reqs') = 2 /\ reqs' # reqs) =>
            /\ DetailsAt("replied")
            /\ reqs = <<[function |-> "OVERVIEW", symbol |-> args.symbol]>>
            /\ Json200
            /\ "Symbol" \in DOMAIN resp.body.data
            /\ reqs'[2].function = "GLOBAL_QUOTE"]_vars
    /\ [][(DetailsAt("replied") /\ Len(reqs) = 1 /\ Json200
              /\ "Symbol" \notin DOMAIN resp.body.data) =>
            /\ pc' = "done"
            /\ ret'.status = "error"
            /\ reqs' = reqs]_vars

C7_Witness ==
    /\ DetailsAt("done")
    /\ Len(reqs) = 1
    /\ Json200
    /\ "Symbol" \notin DOMAIN resp.body.data
    /\ "Name" \in DOMAIN resp.body.data
    /\ ret.status = "error"

\* the fields of the result that come from the overview reply
OverviewDerived == {"name", "sector", "industry", "description", "report"}

\* C8: a reply with a status other than 200 to either call of
\* get_stock_details makes the call return an error envelope at once: no
\* request follows, and the envelope has no overview-derived field.
C8_Non200ReturnsAtOnce ==
    [][(DetailsAt("replied") /\ Non200) =>
          /\ pc' = "done"
          /\ ret'.status = "error"
          /\ reqs' = reqs
          /\ (DOMAIN ret') \cap OverviewDerived = {}]_vars

C8_Witness ==
    /\ DetailsAt("done")
    /\ Len(reqs) = 2
    /\ Non200
    /\ resp.code = 404
    /\ "Name" \in DOMAIN ov.body.data
    /\ ret.status = "error"
    /\ "name" \notin DOMAIN ret

DetailsSuccess == DetailsAt("done") /\ ret.status = "success"

\* the piece of a text that follows a label
Field(text, label) == text[(CHOOSE i \in DOMAIN text : text[i] = label) + 1]

\* the overview object of the invocation
Overview == ov.body.data

\* names under which a result could carry the market capitalisation
MarketCapKeys == {"market_cap", "market_capitalization", "MarketCapitalization"}

\* the provider's raw value, 0 when the field is absent
RawCap == ParseCap(Get(Overview, "MarketCapitalization", <<"0">>))

\* h hundredths of a billion is raw / 1e9 rounded to two decimals:
\* | h * 10^7 - raw | <= 5 * 10^6, with raw = hi * 10^7 + lo
Rounded(h, cap) == Abs((h - cap.hi) * 10000000 - cap.lo) <= 5000000

\* C9 as stated: the structured result of a successful get_stock_details
\* call contains the market capitalisation, equal to the raw value divided
\* by 1e9 and rounded to two decimals.
C9_Original ==
    DetailsSuccess =>
        \E k \in (DOMAIN ret) \cap MarketCapKeys :
            \E h \in RawCap.hi..(RawCap.hi + 1) : Rounded(h, RawCap) /\ ret[k] = TwoDecimals(h)

\* C9 amended: a successful get_stock_details call gives the market
\* capitalisation in the report text only, as the raw value (0 when absent)
\* divided by 1e9 and rounded to two decimals; the structured result has no
\* market capitalisation field.
C9_MarketCapInReport ==
    DetailsSuccess =>
        /\ (DOMAIN ret) \cap MarketCapKeys = {}
        /\ \E h \in RawCap.hi..(RawCap.hi + 1) :
              /\ Rounded(h, RawCap)
              /\ Field(ret.report, "Market Cap: $") = TwoDecimals(h)

C9_Witness ==
    /\ DetailsSuccess
    /\ "MarketCapitalization" \in DOMAIN Overview
    /\ RawCap.hi = 299
    /\ RawCap.lo = 5000001
    /\ Field(ret.report, "Market Cap: $") = "3.00"

OptionalFields == {"Sector", "Industry", "MarketCapitalization", "PERatio",
                   "DividendYield", "52WeekHigh", "52WeekLow"}

Label(k) ==
    CASE k = "Sector" -> "Sector: "
      [] k = "Industry" -> "Industry: "
      [] k = "MarketCapitalization" -> "Market Cap: $"
      [] k = "PERatio" -> "P/E Ratio: "
      [] k = "DividendYield" -> "Dividend Yield: "
      [] k = "52WeekHigh" -> "52-week High: $"
      [] OTHER -> "52-week Low: $"

UnknownMarkers == {"Unknown", "N/A"}

Missing == OptionalFields \ DOMAIN Overview

\* the overview with every missing optional field filled in
Filled(o) ==
    [k \in (DOMAIN o) \cup OptionalFields |->
        IF k \in DOMAIN o THEN o[k] ELSE OverviewValue(k, <<"0">>)]

\* a missing optional field does not change the status of the call
MissingIsHarmless ==
    (DetailsAt("done") /\ Len(reqs) = 2) =>
        ret.status = StockDetails(args.symbol, Filled(Overview), resp, FALSE).status

\* C10 as stated: with a Symbol and any subset of the optional fields
\* missing the call is not turned into an error and every missing field,
\* MarketCapitalization included, is rendered as an unknown marker.
C10_Original ==
    /\ MissingIsHarmless
    /\ DetailsSuccess => \A k \in Missing : Field(ret.report, Label(k)) \in UnknownMarkers

\* C10 amended: a missing optional field never turns the call into an
\* error; in the report a missing Sector or Industry reads "Unknown", a
\* missing PERatio, DividendYield, 52WeekHigh or 52WeekLow reads "N/A", and
\* a missing MarketCapitalization reads 0.00 (billion), not an unknown marker.
C10_MissingFieldsRender ==
    /\ MissingIsHarmless
    /\ DetailsSuccess =>
          \A k \in Missing :
              Field(ret.report, Label(k)) =
                  (IF k = "MarketCapitalization" THEN "0.00"
                   ELSE IF k \in {"Sector", "Industry"} THEN "Unknown" ELSE "N/A")

C10_Witness ==
    /\ DetailsSuccess
    /\ DOMAIN Overview = {"Symbol"}
    /\ Field(ret.report, "P/E Ratio: ") = "N/A"

NewsSent == op = "get_stock_news" /\ Len(reqs) = 1

\* the caller provided a topics filter: passed, not None and not empty
TopicsProvided == args.given /\ args.topics.type # "NoneType" /\ args.topics.items # <<>>

\* C11: the request of get_stock_news has a topics parameter exactly when
\* the caller provided topics; a call that leaves topics out, or passes None
\* or an empty value, sends no topics parameter, and a call that provides
\* topics sends that filter.
C11_TopicsOnlyWhenProvided ==
    NewsSent =>
        /\ reqs[1].hasTopics <=> TopicsProvided
        /\ TopicsProvided => reqs[1].topics = TopicsStr(args.topics)

LetterPairs == {<<"a", "A">>, <<"b", "B">>, <<"p", "P">>, <<"l", "L">>}

\* t is orig with every lower-case letter replaced by its capital
UpperCased(t, orig) ==
    /\ Len(t) = Len(orig)
    /\ \A i \in DOMAIN t :
          /\ \A pair \in LetterPairs : t[i] # pair[1]
          /\ (t[i] = orig[i] \/ <<orig[i], t[i]>> \in LetterPairs)

\* C12: every envelope get_earnings_call_news_highlights returns, success
\* or error, has the upper-cased ticker; an envelope of get_stock_news has a
\* ticker key exactly when its status is "success".
C12_TickerEcho ==
    /\ (Returned /\ op = "get_earnings_call_news_highlights") =>
          /\ "ticker" \in DOMAIN ret
          /\ UpperCased(ret.ticker, args.ticker.chars)
    /\ (Returned /\ op = "get_stock_news") =>
          ("ticker" \in DOMAIN ret <=> ret.status = "success")

C12_Witness ==
    /\ Returned
    /\ op = "get_earnings_call_news_highlights"
    /\ resp.kind = "exception"
    /\ ret.status = "error"
    /\ args.ticker.chars = <<"a", "b">>
    /\ ret.ticker = <<"A", "B">>

EarningsDone == pc = "done" /\ op = "get_earnings_call_news_highlights"

\* the topic filter "earnings" as a caller of get_stock_news passes it
PinnedEarnings == [type |-> "str", items |-> <<"earnings">>]

\* what get_stock_news returns for the same ticker and reply with that filter
AsNews(jsonKind) == StockNews(args.ticker, PinnedEarnings, resp, jsonKind)

SameIfPresent(key, a, b) ==
    /\ key \in DOMAIN a <=> key \in DOMAIN b
    /\ (key \in DOMAIN a /\ key \in DOMAIN b) => a[key] = b[key]

\* C13 as stated: for the same ticker, limit and reply the earnings
\* operation has the status, ticker echo and articles of get_stock_news
\* with the filter "earnings", sends that request, and its success envelope
\* differs only by the added note.
C13_Original ==
    (EarningsDone /\ escaped = "none") =>
        \A k \in JsonErrorKinds :
            /\ ret.status = AsNews(k).status
            /\ SameIfPresent("ticker", ret, AsNews(k))
            /\ SameIfPresent("articles", ret, AsNews(k))
            /\ reqs[1] = NewsUrl(args.ticker, args.limit, PinnedEarnings)
            /\ ret.status = "success" => DOMAIN ret = (DOMAIN AsNews(k)) \cup {"note"}

\* C13 amended: for the same ticker, limit and reply the earnings operation
\* sends the request get_stock_news sends with the filter "earnings" and
\* returns the same status; on success the same upper-cased ticker and the
\* same articles, with topic_filtered and note where get_stock_news has
\* topics; on error it has the ticker echo in addition to the keys
\* get_stock_news returns.  For a ticker that is not a string it sends no
\* request and returns no envelope, where get_stock_news returns an error.
C13_EarningsAsPinnedNews ==
    /\ (EarningsDone /\ escaped = "none") =>
          \A k \in JsonErrorKinds :
              /\ ret.status = AsNews(k).status
              /\ reqs[1] = NewsUrl(args.ticker, args.limit, PinnedEarnings)
              /\ ret.status = "success" =>
                    /\ ret.ticker = AsNews(k).ticker
                    /\ ret.articles = AsNews(k).articles
                    /\ DOMAIN ret = ((DOMAIN AsNews(k)) \ {"topics"})
                                        \cup {"topic_filtered", "note"}
              /\ ret.status = "error" =>
                    DOMAIN ret = (DOMAIN AsNews(k)) \cup {"ticker"}
    /\ (EarningsDone /\ args.ticker.type # "str") =>
          /\ escaped # "none"
          /\ reqs = <<>>
          /\ NewsFailure(args.ticker, "AttributeError").status = "error"

C13_Witness ==
    /\ EarningsDone
    /\ escaped = "none"
    /\ ret.status = "success"
    /\ Len(ret.articles) = 2
    /\ ret.articles[1] # ret.articles[2]
    /\ args.ticker.chars = <<"A", "b">>

HistDone == pc = "done" /\ op = "get_historical_yahoo_finance"

HistSuccess == HistDone /\ ret.status = "success"

\* the text has the form YYYY-MM-DD HH:MM:SS
Canonical(dt) ==
    /\ Len(dt) = 11
    /\ <<dt[2], dt[4], dt[6], dt[8], dt[10]>> = <<"-", "-", " ", ":", ":">>
    /\ Len(dt[1]) = 4
    /\ \A i \in {3, 5, 7, 9, 11} : Len(dt[i]) = 2

\* C14: every record of a successful get_historical_yahoo_finance result
\* has a date_time in the form YYYY-MM-DD HH:MM:SS and no longer has the
\* provider's time stamp column under the name Date or Datetime, whatever
\* the type of the time stamps and the name of the index column.
C14_CanonicalDateTime ==
    HistSuccess =>
        \A i \in DOMAIN ret.data :
            /\ "date_time" \in DOMAIN ret.data[i]
            /\ Canonical(ret.data[i].date_time)
            /\ {"Date", "Datetime"} \cap DOMAIN ret.data[i] = {}

\* the columns of a provider row other than its time stamp
ValueColumns == {"Close"}

\* the day a date_time text names
DayOf(dt) == CHOOSE d \in 0..31 : PadDigits(d, 2) = dt[5]

Ascending(rows) == \A i, j \in DOMAIN rows : i < j => rows[i].t <= rows[j].t

\* C15: a successful get_historical_yahoo_finance result has one record per
\* provider row, in the provider's row order: record i has the value
\* columns of row i under their names and, where it has a date_time, the
\* time stamp of row i, so that an ascending series gives non-decreasing
\* date_time values.
C15_OneRecordPerRow ==
    HistSuccess =>
        /\ Len(ret.data) = Len(resp.table.rows)
        /\ \A i \in DOMAIN ret.data :
              /\ \A c \in ValueColumns :
                    c \in DOMAIN ret.data[i] /\ ret.data[i][c] = resp.table.rows[i][c]
              /\ "date_time" \in DOMAIN ret.data[i] =>
                    DayOf(ret.data[i].date_time) = resp.table.rows[i].t
        /\ Ascending(resp.table.rows) =>
              \A i, j \in DOMAIN ret.data :
                  (i < j /\ "date_time" \in DOMAIN ret.data[i]
                         /\ "date_time" \in DOMAIN ret.data[j]) =>
                      DayOf(ret.data[i].date_time) <= DayOf(ret.data[j].date_time)

C15_Witness ==
    /\ HistSuccess
    /\ resp.table.index = "Datetime"
    /\ resp.table.stamp = "Timestamp"
    /\ Len(ret.data) = 2
    /\ resp.table.rows[1].t < resp.table.rows[2].t
    /\ resp.table.rows[1].Close > resp.table.rows[2].Close
    /\ DayOf(ret.data[1].date_time) < DayOf(ret.data[2].date_time)

\* the provider answered with a table that has no rows
EmptyTable == resp.kind = "table" /\ resp.table.rows = <<>>

\* C16: when the historical-quotes provider returns a table with no rows,
\* get_historical_yahoo_finance returns status "error", with no data, and
\* the error_message names the requested ticker, period and interval.
C16_NoRowsIsError ==
    (HistDone /\ EmptyTable) =>
        /\ ret.status = "error"
        /\ "data" \notin DOMAIN ret
        /\ \A piece \in {Str(args.ticker), args.period, args.interval} :
              Contains(ret.error_message, piece)

C16_Witness ==
    /\ HistDone
    /\ EmptyTable
    /\ ret.status = "error"
    /\ args.ticker.type = "str"
    /\ Contains(ret.error_message, Str(args.ticker))

\* the upstream feed array of the reply, empty when feed is absent or is
\* not an array
UpstreamFeed ==
    IF "feed" \in DOMAIN resp.body.data /\ resp.body.data["feed"].list
    THEN resp.body.data["feed"].items
    ELSE <<>>

\* the text an article record carries for a field its entry lacks
Fallback(k) ==
    CASE k = "title" -> "No Title Available"
      [] k = "url" -> "#"
      [] k = "source" -> "Unknown Source"
      [] k = "summary" -> "No summary available."
      [] k = "time_published" -> "Unknown Time"

Processed(key) == PySlice(Upstream(key), args.limit)

\* the entry whose price "N/A" is no number once "$" is stripped
Unconvertible(stock) == stock.price = <<"N", "/", "A">>

SomeUnconvertible ==
    \E key \in {"top_gainers", "top_losers"} :
        \E i \in DOMAIN Processed(key) : Unconvertible(Processed(key)[i])

\* the numbers the texts of the upstream entries stand for
Numbers(symbol) ==
    IF symbol = "AAA"
    THEN [price |-> [m |-> 15, e |-> 1],        \* "1.5"
          change |-> [m |-> 5, e |-> 1],        \* "0.5"
          change_percent |-> [m |-> 50, e |-> 0],   \* "50.0%"
          volume |-> 1200]                      \* "1200"
    ELSE [price |-> [m |-> 2, e |-> 0],         \* "$2"
          change |-> [m |-> 0, e |-> 0],        \* absent, "0"
          change_percent |-> [m |-> -325, e |-> 2], \* "-3.25%"
          volume |-> 1000]                      \* "1,000"

Converted(list, key) ==
    /\ Len(list) = Len(Processed(key))
    /\ \A i \in DOMAIN list :
          /\ list[i].symbol = Processed(key)[i].ticker
          /\ \A f \in {"price", "change", "change_percent", "volume"} :
                list[i][f] = Numbers(list[i].symbol)[f]

\* C19: get_market_movers is all-or-nothing over the entries it processes.
\* On a 200 JSON reply, if a field of one of the processed gainers or losers
\* does not convert to a number, the result is an error envelope with no
\* gainers, losers or report; otherwise it is a success whose entries carry
\* price, change and change_percent as numbers with "$" and "%" removed and
\* volume as an integer with "," removed.
C19_AllOrNothing ==
    (MoversDone /\ Json200) =>
        IF SomeUnconvertible
        THEN /\ ret.status = "error"
             /\ {"gainers", "losers", "report"} \cap DOMAIN ret = {}
        ELSE /\ ret.status = "success"
             /\ Converted(ret.gainers, "top_gainers")
             /\ Converted(ret.losers, "top_losers")

\* a good gainer was converted before a bad loser was met: nothing of it is
\* handed back
C19_Witness ==
    /\ MoversDone
    /\ Json200
    /\ args.limit = 2
    /\ Upstream("top_gainers") = <<MoverB, MoverA>>
    /\ Upstream("top_losers") = <<MoverA, MoverBad>>
    /\ ret.status = "error"
    /\ "gainers" \notin DOMAIN ret

C19_WitnessConverted ==
    /\ MoversDone
    /\ Json200
    /\ ret.status = "success"
    /\ Len(ret.gainers) = 2
    /\ ret.gainers[1].volume = 1000
    /\ ret.gainers[1].price = [m |-> 2, e |-> 0]

NewsSuccess == NewsDone /\ ret.status = "success"

\* C20: the success envelopes of get_stock_news and
\* get_earnings_call_news_highlights echo the ticker in upper case, the
\* form sent in the upstream request; get_stock_news also echoes topics as
\* the call received it, and the request carries a topics parameter exactly
\* when that value is truthy, with its text.
C20_EchoDescribesRequest ==
    NewsSuccess =>
        /\ Len(reqs) = 1
        /\ UpperCased(ret.ticker, args.ticker.chars)
        /\ reqs[1].tickers = Join(ret.ticker)
        /\ op = "get_stock_news" =>
              /\ ret.topics = args.topics
              /\ reqs[1].hasTopics <=> Truthy(ret.topics)
              /\ reqs[1].hasTopics => reqs[1].topics = TopicsStr(ret.topics)

C20_Witness ==
    /\ NewsSuccess
    /\ op = "get_stock_news"
    /\ args.given
    /\ args.ticker.chars = <<"a", "b">>
    /\ ret.ticker = <<"A", "B">>
    /\ reqs[1].tickers = "AB"
    /\ ret.topics = [type |-> "list", items |-> <<"'earnings'", "'ipo'">>]
    /\ reqs[1].topics = "['earnings', 'ipo']"

\* the call that has just returned repeats the kept one: same operation,
\* same arguments, same upstream replies
Repeats ==
    /\ pc = "done"
    /\ seen.op = op
    /\ seen.args = CallerArgs
    /\ seen.replies = <<ov, resp>>

\* C17: a call that repeats an earlier call of the same operation, with the
\* same arguments and the same upstream replies, sends the same requests
\* and has an outcome of the same structure (status, keys, value types),
\* whatever calls were made in between; and no step of any call changes
\* the default topics list of get_stock_news, the one object that outlives
\* a call.
C17_CallsAreIndependent ==
    /\ [](Repeats =>
            /\ Shape(ret) = seen.shape
            /\ reqs = seen.reqs
            /\ escaped = seen.escaped)
    /\ [][topics_default' = topics_default]_vars

C17_Witness ==
    /\ Repeats
    /\ seen.later
    /\ op = "get_stock_news"
    /\ ~args.given
    /\ ret.status = "success"
    /\ Len(ret.articles) = 1
    /\ Shape(ret) = seen.shape

MoversSuccess == MoversDone /\ ret.status = "success"

\* the pieces of one report line: the literal and the interpolated parts of
\* its f-string
LineWidth == 10

\* the text an f-string gives for the numbers of the upstream entries
NumberText(symbol) ==
    IF symbol = "AAA"
    THEN [change_percent |-> "50.0", price |-> "1.5"]
    ELSE [change_percent |-> "-3.25", price |-> "2.0"]

\* the pieces of text from position at on are the line numbered idx of
\* the entry stock, with sign before the percentage
IsLine(text, at, idx, stock, sign) ==
    /\ at + LineWidth <= Len(text)
    /\ text[at + 1] = ToString(idx)
    /\ text[at + 2] = ". "
    /\ text[at + 3] = stock.symbol
    /\ text[at + 4] = " ("
    /\ text[at + 5] = stock.name
    /\ text[at + 6] = "): " \o sign
    /\ text[at + 7] = NumberText(stock.symbol).change_percent
    /\ text[at + 8] = "%, $"
    /\ text[at + 9] = NumberText(stock.symbol).price
    /\ text[at + 10] = "\n"

\* C21: in every successful get_market_movers result the report is the
\* gainers section followed by the losers section: "Top Gainers:\n", one
\* line per returned gainer numbered 1..N in list order with "+" before
\* the percentage, then "\nTop Losers:\n" and one line per returned loser
\* numbered 1..M in list order, and nothing else; with at least one gainer
\* the report begins "Top Gainers:\n1. ".
C21_ReportListsTheEntries ==
    MoversSuccess =>
        LET N == Len(ret.gainers)
            M == Len(ret.losers)
            mid == 1 + LineWidth * N
        IN  /\ Len(ret.report) = 2 + LineWidth * (N + M)
            /\ ret.report[1] = "Top Gainers:\n"
            /\ \A i \in 1..N :
                  IsLine(ret.report, 1 + LineWidth * (i - 1), i, ret.gainers[i], "+")
            /\ ret.report[mid + 1] = "\nTop Losers:\n"
            /\ \A j \in 1..M :
                  IsLine(ret.report, mid + 1 + LineWidth * (j - 1), j, ret.losers[j], "")
            /\ N >= 1 => SubSeq(ret.report, 1, 3) = <<"Top Gainers:\n", "1", ". ">>

C21_Witness ==
    /\ MoversSuccess
    /\ Len(ret.gainers) = 2
    /\ Len(ret.losers) = 1
    /\ ret.gainers[1].symbol = "BBB"
    /\ ret.gainers[2].symbol = "AAA"
    /\ ret.report[7] = "): +"
    /\ ret.report[8] = "-3.25"
    /\ ret.report[12] = "2"
    /\ ret.report[23] = "1"

\* the invocation has handed an envelope back to its caller
EnvelopeReturned == pc = "done" /\ escaped = "none" /\ ret.status \in {"success", "error"}

\* a request goes out only when none is outstanding, one at a time, and the
\* function then waits; while it waits nothing happens but the reply
OneAtATime ==
    /\ (pc' # "idle" /\ reqs' # reqs) =>
          /\ pc # "waiting"
          /\ Len(reqs') = Len(reqs) + 1
          /\ pc' = "waiting"
    /\ pc = "waiting" =>
          /\ pc' = "replied"
          /\ resp' # NoResp
          /\ <<reqs', ret', escaped'>> = <<reqs, ret, escaped>>

\* C22: an operation has at most one upstream request outstanding and
\* blocks until it completes, with no way out of the wait but the reply;
\* and when every upstream request comes back, every invocation that was
\* entered returns an envelope.
C22_BlocksThenReturns ==
    /\ [][OneAtATime]_vars
    /\ (pc = "entered") ~> EnvelopeReturned

\* every invocation that was entered comes to an end, by returning or by
\* raising
C22_EveryCallEnds == (pc = "entered") ~> (pc = "done")

\* the steps of Proceeds are the steps of ProgramStep
SameSteps == [][Proceeds <=> ProgramStep]_vars

====
